---- MODULE Spec2Model ----
(***************************************************************************)
(* The dotlas API client: the schema layer (request descriptors and their  *)
(* validators) and the App facade (one method per remote capability, all   *)
(* going through App.__generic_fetch).                                     *)
(*                                                                         *)
(* Python values are encoded as follows.                                   *)
(*   Optional value : None is <<>>, a present value v is <<v>>.            *)
(*   keyword argument with a default : Omitted, or Given(v).               *)
(*   float coordinate : an integer count of 1/CoordResolution degrees.     *)
(*   URL : the sequence of its "/"-separated segments.                     *)
(*   dict : a record; a key is present iff it is in the record's DOMAIN.   *)
(* The transport (requests.request) is the environment: every call draws   *)
(* its outcome from Outcomes.                                              *)
(***************************************************************************)
EXTENDS Integers, Sequences, FiniteSets, TLC

VARIABLES app, call, sent, answer, result, threads

vars == <<app, call, sent, answer, result, threads>>

---------------------------------------------------------------------------
(* Bounds and input domains *)

CoordResolution == 10000

(* The number of entries in the per-hour lists the inputs are built from. *)
DayLength == 24

None == <<>>
Some(v) == <<v>>
Val(x) == x[1]

Omitted == [given |-> FALSE]
Given(v) == [given |-> TRUE, v |-> v]
Arg(a, default) == IF a.given THEN a.v ELSE default

TruthyInt(x) == x /= None /\ Val(x) /= 0
TruthyStr(x) == x /= None /\ Val(x) /= ""
TruthyList(x) == x /= None /\ Val(x) /= <<>>
TruthyDict(d) == DOMAIN d /= {}

Segment(x) == IF x = None THEN "None" ELSE Val(x)

ApiKeys == {"xyz"}

LatitudeInputs ==
    {-(90 * CoordResolution) - 1, -(90 * CoordResolution), 0,
     90 * CoordResolution, 90 * CoordResolution + 1}

LongitudeInputs ==
    {-(180 * CoordResolution) - 1, -(180 * CoordResolution), 0,
     180 * CoordResolution, 180 * CoordResolution + 1}

(* The threads that call one client at the same time. *)
Callers == {"t1", "t2"}

CityInputs == {None, Some("Dubai")}

CommercialTypeInputs == {None, Some("restaurants")}

ModeValues == {None, Some(""), Some("driving"), Some("walking"), Some("flying")}

ModeInputs == {Omitted} \cup {Given(m) : m \in ModeValues}

TimeInputs == {None, Some(-1), Some(0), Some(1), Some(30), Some(60), Some(61)}

DistanceInputs ==
    {None, Some(-1), Some(0), Some(1), Some(800), Some(10000), Some(10001)}

RadiusInputs ==
    {Omitted} \cup {Given(Some(r)) : r \in {-1, 0, 1, 500, 10000, 10001}}

FilterInputs == {None, Some(<<"Starbucks">>)}

CategoriesInputs == {None, Some(<<>>), Some(<<"pizza">>)}

PriceRangeInputs == {None, Some(-1), Some(0), Some(1), Some(2), Some(4)}

NameInputs == {"Downtown"}

---------------------------------------------------------------------------
(* Errors and results *)

ValueError(msg, detail) ==
    [exc |-> "ValueError", msg |-> msg, fields |-> {}, detail |-> detail]

ValidationError(model, fields) ==
    [exc |-> "ValidationError", msg |-> model, fields |-> fields, detail |-> None]

TypeError(msg) ==
    [exc |-> "TypeError", msg |-> msg, fields |-> {}, detail |-> None]

KeyError(key) ==
    [exc |-> "KeyError", msg |-> key, fields |-> {}, detail |-> None]

Raise(e) == [kind |-> "raise", error |-> e, value |-> None]
Return(v) == [kind |-> "return", error |-> None, value |-> v]

---------------------------------------------------------------------------
(* Schema layer: the validators of the request descriptors.  A validator   *)
(* is TRUE when it returns the value and FALSE when it raises.  pydantic   *)
(* reports the set of fields whose validation failed.                      *)

Required(x) == x /= None

time_minutes_valid(time_minutes) == 1 <= time_minutes /\ time_minutes <= 60

distance_meters_valid(distance_meters) ==
    1 <= distance_meters /\ distance_meters <= 10000

mode_of_mobility_valid(mode_of_mobility) ==
    mode_of_mobility \in {"driving", "walking"}

SalesTerritoryRequest_latitude_validation(latitude) ==
    -(90 * CoordResolution) <= latitude /\ latitude <= 90 * CoordResolution

SalesTerritoryRequest_longitude_validation(longitude) ==
    -(180 * CoordResolution) <= longitude /\ longitude <= 180 * CoordResolution

time_minutes_validation(time_minutes) ==
    ~(TruthyInt(time_minutes) /\ ~time_minutes_valid(Val(time_minutes)))

distance_meters_validation(distance_meters) ==
    ~(TruthyInt(distance_meters) /\ ~distance_meters_valid(Val(distance_meters)))

mode_of_mobility_validation(mode_of_mobility) ==
    ~(TruthyStr(mode_of_mobility) /\ ~mode_of_mobility_valid(Val(mode_of_mobility)))

SalesTerritoryRequest(latitude, longitude, city, mode_of_mobility, time_minutes, distance_meters) ==
    (IF SalesTerritoryRequest_latitude_validation(latitude)
     THEN {} ELSE {"latitude"})
    \cup (IF SalesTerritoryRequest_longitude_validation(longitude)
          THEN {} ELSE {"longitude"})
    \cup (IF Required(city) THEN {} ELSE {"city"})
    \cup (IF mode_of_mobility_validation(mode_of_mobility)
          THEN {} ELSE {"mode_of_mobility"})
    \cup (IF time_minutes_validation(time_minutes)
          THEN {} ELSE {"time_minutes"})
    \cup (IF distance_meters_validation(distance_meters)
          THEN {} ELSE {"distance_meters"})

(* Mutant: the lower bound off by one. *)
radius_meters_valid_from_zero(radius_meters) ==
    0 <= radius_meters /\ radius_meters <= 10000

radius_meters_valid(radius_meters) == 1 <= radius_meters /\ radius_meters <= 10000

CompetitionRequest_latitude_validation(latitude) ==
    -(90 * CoordResolution) <= latitude /\ latitude <= 90 * CoordResolution

CompetitionRequest_longitude_validation(longitude) ==
    -(180 * CoordResolution) <= longitude /\ longitude <= 180 * CoordResolution

radius_meters_validation(radius_meters) == radius_meters_valid(radius_meters)

CompetitionRequest(latitude, longitude, city, commercial_type, radius_meters) ==
    (IF CompetitionRequest_latitude_validation(latitude)
     THEN {} ELSE {"latitude"})
    \cup (IF CompetitionRequest_longitude_validation(longitude)
          THEN {} ELSE {"longitude"})
    \cup (IF Required(city) THEN {} ELSE {"city"})
    \cup (IF Required(commercial_type) THEN {} ELSE {"commercial_type"})
    \cup (IF Required(radius_meters) /\ radius_meters_validation(Val(radius_meters))
          THEN {} ELSE {"radius_meters"})

price_range_validation(price_range) ==
    ~(TruthyInt(price_range) /\ Val(price_range) < 1)

GenericInsightsRequests(city, commercial_type, categories, price_range) ==
    (IF Required(city) THEN {} ELSE {"city"})
    \cup (IF Required(commercial_type) THEN {} ELSE {"commercial_type"})
    \cup (IF price_range_validation(price_range) THEN {} ELSE {"price_range"})

ReverseGeocodeRequest_latitude_validation(latitude) ==
    -(90 * CoordResolution) <= latitude /\ latitude <= 90 * CoordResolution

(* Mutant: the latitude bound copied into the longitude validator. *)
ReverseGeocodeRequest_longitude_as_latitude(longitude) ==
    -(90 * CoordResolution) <= longitude /\ longitude <= 90 * CoordResolution

ReverseGeocodeRequest_longitude_validation(longitude) ==
    -(180 * CoordResolution) <= longitude /\ longitude <= 180 * CoordResolution

ReverseGeocodeRequest(latitude, longitude) ==
    (IF ReverseGeocodeRequest_latitude_validation(latitude)
     THEN {} ELSE {"latitude"})
    \cup (IF ReverseGeocodeRequest_longitude_validation(longitude)
          THEN {} ELSE {"longitude"})

(* Constructing a descriptor: the object, or pydantic's ValidationError. *)
Construct(model, errors) ==
    IF errors = {}
    THEN Return(Some([model |-> model]))
    ELSE Raise(ValidationError(model, errors))

---------------------------------------------------------------------------
(* Decoded JSON and the pydantic models of the insights responses          *)
(* (schemas/competition.py).  A decoded JSON value is tagged with its      *)
(* kind; a model is the table of its fields, each with its annotated type  *)
(* and whether it is required (a field declared "= None" is optional).     *)
(* The values used are those on which pydantic's coercions are the         *)
(* identity: numbers for int and float fields, strings for str fields.     *)

JNull == [t |-> "null"]
JNum(n) == [t |-> "number", n |-> n]
JStr(s) == [t |-> "string", s |-> s]
JList(items) == [t |-> "array", items |-> items]
JObj(fields) == [t |-> "object", fields |-> fields]

IntT == [k |-> "int"]
FloatT == [k |-> "float"]
StrT == [k |-> "str"]
ListT(elem) == [k |-> "list", elem |-> elem]
ModelT(name) == [k |-> "model", name |-> name]

Req(type) == [type |-> type, required |-> TRUE]
Opt(type) == [type |-> type, required |-> FALSE]

Weekdays ==
    {"sunday", "monday", "tuesday", "wednesday", "thursday", "friday",
     "saturday"}

PriceBins ==
    [price_1 |-> Opt(IntT), price_2 |-> Opt(IntT), price_3 |-> Opt(IntT),
     price_4 |-> Opt(IntT)]

(* sunday: List[int] ... saturday: List[int] *)
OperatingHours == [d \in Weekdays |-> Req(ListT(IntT))]

GenericInsightsRequestsFields ==
    [city |-> Req(StrT), commercial_type |-> Req(StrT),
     categories |-> Opt(ListT(StrT)), price_range |-> Opt(IntT)]

GenericInsights ==
    [max_outlets |-> Req(StrT), max_avg_rating |-> Req(StrT),
     max_avg_reviews |-> Req(StrT)]

CategoryStat ==
    [category_tag |-> Req(StrT), avg_rating |-> Req(FloatT),
     avg_number_of_reviews |-> Req(FloatT), outlet_count |-> Req(IntT),
     price_bins |-> Req(ModelT("PriceBins"))]

CategoryPairwiseOccurrence ==
    [category_1 |-> Req(StrT), category_2 |-> Req(StrT),
     pair_occurrences |-> Req(IntT)]

CategoryInsights ==
    GenericInsights
    @@ [min_avg_rating |-> Req(StrT),
        category_stats |-> Req(ListT(ModelT("CategoryStat"))),
        category_by_pairwise_occurrence |->
            Req(ListT(ModelT("CategoryPairwiseOccurrence")))]

BrandStat ==
    [brand_name |-> Req(StrT), avg_rating |-> Req(FloatT),
     avg_number_of_reviews |-> Req(FloatT), outlet_count |-> Req(IntT),
     category_tags |-> Req(ListT(StrT)),
     price_bins |-> Req(ModelT("PriceBins"))]

(* Mutant: operating_hours is declared with a default, so a response       *)
(* without it is accepted.                                                 *)
BrandInsights_operating_hours_optional ==
    GenericInsights
    @@ [outlet_count |-> Req(IntT),
        brand_stats_by_outlet_count |-> Req(ListT(ModelT("BrandStat"))),
        brand_stats_by_avg_rating |-> Req(ListT(ModelT("BrandStat"))),
        brand_stats_by_avg_number_of_reviews |->
            Req(ListT(ModelT("BrandStat"))),
        outlet_counts_by_price |-> Req(ModelT("PriceBins")),
        operating_hours_outlet_count |-> Req(IntT),
        operating_hours |-> Opt(ModelT("OperatingHours"))]

BrandInsights ==
    GenericInsights
    @@ [outlet_count |-> Req(IntT),
        brand_stats_by_outlet_count |-> Req(ListT(ModelT("BrandStat"))),
        brand_stats_by_avg_rating |-> Req(ListT(ModelT("BrandStat"))),
        brand_stats_by_avg_number_of_reviews |->
            Req(ListT(ModelT("BrandStat"))),
        outlet_counts_by_price |-> Req(ModelT("PriceBins")),
        operating_hours_outlet_count |-> Req(IntT),
        operating_hours |-> Req(ModelT("OperatingHours"))]

StreetStat ==
    [street |-> Req(StrT), avg_rating |-> Req(FloatT),
     avg_number_of_reviews |-> Req(FloatT), brand_count |-> Req(IntT)]

NeighborhoodStat ==
    [neighborhood |-> Req(StrT), avg_rating |-> Req(FloatT),
     avg_number_of_reviews |-> Req(FloatT), brand_count |-> Req(IntT)]

PostcodeStat ==
    [postcode |-> Req(StrT), avg_rating |-> Req(FloatT),
     avg_number_of_reviews |-> Req(FloatT), brand_count |-> Req(IntT)]

AreaInsights ==
    [street_stats |-> Req(ListT(ModelT("StreetStat"))),
     neighborhood_stats |-> Req(ListT(ModelT("NeighborhoodStat"))),
     postcode_stats |-> Req(ListT(ModelT("PostcodeStat")))]

CategoryInsightsEndpointResponse ==
    [request |-> Req(ModelT("GenericInsightsRequests")),
     response |-> Req(ModelT("CategoryInsights"))]

BrandInsightsEndpointResponse ==
    [request |-> Req(ModelT("GenericInsightsRequests")),
     response |-> Req(ModelT("BrandInsights"))]

AreaInsightsEndpointResponse ==
    [request |-> Req(ModelT("GenericInsightsRequests")),
     response |-> Req(ModelT("AreaInsights"))]

(* The fields a model class declares. *)
ModelFields(name) ==
    CASE name = "PriceBins" -> PriceBins
      [] name = "OperatingHours" -> OperatingHours
      [] name = "GenericInsightsRequests" -> GenericInsightsRequestsFields
      [] name = "CategoryStat" -> CategoryStat
      [] name = "CategoryPairwiseOccurrence" -> CategoryPairwiseOccurrence
      [] name = "CategoryInsights" -> CategoryInsights
      [] name = "BrandStat" -> BrandStat
      [] name = "BrandInsights" -> BrandInsights
      [] name = "StreetStat" -> StreetStat
      [] name = "NeighborhoodStat" -> NeighborhoodStat
      [] name = "PostcodeStat" -> PostcodeStat
      [] name = "AreaInsights" -> AreaInsights
      [] name = "CategoryInsightsEndpointResponse" ->
            CategoryInsightsEndpointResponse
      [] name = "BrandInsightsEndpointResponse" -> BrandInsightsEndpointResponse
      [] name = "AreaInsightsEndpointResponse" -> AreaInsightsEndpointResponse

(* The @validator functions that run on a field once its type is accepted. *)
FieldValidator(name, field, json) ==
    (name = "GenericInsightsRequests" /\ field = "price_range")
        => price_range_validation(Some(json.n))

RECURSIVE Valid(_, _), InvalidFields(_, _), Parse(_, _), Dump(_, _)

(* Whether pydantic accepts the decoded JSON value for a field of the type. *)
Valid(type, json) ==
    CASE type.k = "int" -> json.t = "number"
      [] type.k = "float" -> json.t = "number"
      [] type.k = "str" -> json.t = "string"
      [] type.k = "list" ->
            /\ json.t = "array"
            /\ \A i \in DOMAIN json.items : Valid(type.elem, json.items[i])
      [] type.k = "model" ->
            /\ json.t = "object"
            /\ InvalidFields(type.name, json.fields) = {}

(* Constructing a model from keywords: the declared fields pydantic       *)
(* reports in its ValidationError: a required one that is missing or null, *)
(* or a present one whose value is not accepted.  Undeclared fields are    *)
(* ignored.                                                                *)
InvalidFields(name, fields) ==
    {f \in DOMAIN ModelFields(name) :
        IF f \in DOMAIN fields /\ fields[f].t /= "null"
        THEN \/ ~Valid(ModelFields(name)[f].type, fields[f])
             \/ ~FieldValidator(name, f, fields[f])
        ELSE ModelFields(name)[f].required}

(* The value pydantic stores for an accepted JSON value: an object has     *)
(* exactly the declared fields, an optional one holding Some(v) or None.   *)
Parse(type, json) ==
    CASE type.k \in {"int", "float"} -> json.n
      [] type.k = "str" -> json.s
      [] type.k = "list" ->
            [i \in DOMAIN json.items |-> Parse(type.elem, json.items[i])]
      [] type.k = "model" ->
            [f \in DOMAIN ModelFields(type.name) |->
                IF ModelFields(type.name)[f].required
                THEN Parse(ModelFields(type.name)[f].type, json.fields[f])
                ELSE IF f \in DOMAIN json.fields /\ json.fields[f].t /= "null"
                THEN Some(Parse(ModelFields(type.name)[f].type, json.fields[f]))
                ELSE None]

(* Model.dict() followed by JSON encoding: every declared field is         *)
(* written, an optional one that holds None as null.                       *)
Dump(type, value) ==
    CASE type.k \in {"int", "float"} -> JNum(value)
      [] type.k = "str" -> JStr(value)
      [] type.k = "list" ->
            JList([i \in DOMAIN value |-> Dump(type.elem, value[i])])
      [] type.k = "model" ->
            JObj([f \in DOMAIN ModelFields(type.name) |->
                IF ModelFields(type.name)[f].required
                THEN Dump(ModelFields(type.name)[f].type, value[f])
                ELSE IF value[f] = None
                THEN JNull
                ELSE Dump(ModelFields(type.name)[f].type, Val(value[f]))])

(* Constructing a model: the typed object, or pydantic's ValidationError. *)
ConstructModel(name, fields) ==
    IF InvalidFields(name, fields) = {}
    THEN Return(Some([model |-> name,
                      data |-> Parse(ModelT(name), JObj(fields))]))
    ELSE Raise(ValidationError(name, InvalidFields(name, fields)))

---------------------------------------------------------------------------
(* The transport's answers.  A JSON body is an array or an object; of an   *)
(* object the model keeps its member names and which of the members do not *)
(* match the pydantic shape the operation declares for them.               *)

ArrayBody ==
    [type |-> "array", items |-> <<"retail", "restaurants", "gyms">>,
     members |-> {}, invalid |-> {}]

ObjectBody(members, invalid) ==
    [type |-> "object", items |-> <<>>, members |-> members, invalid |-> invalid]

EmptyArrayBody ==
    [type |-> "array", items |-> <<>>, members |-> {}, invalid |-> {}]

Bodies ==
    {ArrayBody,
     EmptyArrayBody,
     ObjectBody({"request", "response"}, {}),
     ObjectBody({"request", "response"}, {"response"}),
     ObjectBody({"request"}, {}),
     ObjectBody({"sociodemographic", "areas_covered", "geometry"}, {}),
     ObjectBody({"type", "features"}, {}),
     ObjectBody({"population_total", "households_total"}, {}),
     ObjectBody({"detail"}, {})}

(* A JSON object kept in full, for the models whose fields are modelled. *)
JsonBody(json) ==
    [type |-> "object", items |-> <<>>, members |-> DOMAIN json.fields,
     invalid |-> {}, json |-> json]

Without(json, field) ==
    JObj([f \in DOMAIN json.fields \ {field} |-> json.fields[f]])

With(json, field, value) ==
    JObj([f \in DOMAIN json.fields \cup {field} |->
             IF f = field THEN value ELSE json.fields[f]])

Hours(n) == JList([i \in 1..n |-> JNum(0)])

FullWeek(n) == [d \in Weekdays |-> Hours(n)]

(* A week whose hourly counts are all different. *)
BusyWeek ==
    [d \in Weekdays |-> JList([i \in 1..DayLength |-> JNum(i)])]

(* What OperatingHours is constructed from: a full week, a week with one   *)
(* weekday missing, and a week one of whose weekdays is a list of another  *)
(* length, holds a non-integer, or is not a list.                          *)
OperatingHoursInputs ==
    {FullWeek(DayLength), BusyWeek}
    \cup {[e \in Weekdays \ {d} |-> Hours(DayLength)] : d \in Weekdays}
    \cup {[FullWeek(DayLength) EXCEPT ![d] = v] :
             d \in Weekdays,
             v \in {Hours(0), Hours(DayLength - 1), Hours(DayLength + 1),
                    JList(<<JStr("closed")>>), JStr("closed"), JNull}}

PriceBinsJson ==
    JObj([price_1 |-> JNum(1), price_2 |-> JNum(2), price_3 |-> JNum(0),
          price_4 |-> JNum(0)])

RequestJson ==
    JObj([city |-> JStr("Dubai"), commercial_type |-> JStr("restaurants"),
          categories |-> JList(<<JStr("pizza")>>), price_range |-> JNum(2)])

BrandStatJson ==
    JObj([brand_name |-> JStr("Starbucks"), avg_rating |-> JNum(4),
          avg_number_of_reviews |-> JNum(120), outlet_count |-> JNum(3),
          category_tags |-> JList(<<JStr("coffee")>>),
          price_bins |-> PriceBinsJson])

BrandInsightsJson ==
    JObj([max_outlets |-> JStr("Starbucks"),
          max_avg_rating |-> JStr("Starbucks"),
          max_avg_reviews |-> JStr("Starbucks"),
          outlet_count |-> JNum(3),
          brand_stats_by_outlet_count |-> JList(<<BrandStatJson>>),
          brand_stats_by_avg_rating |-> JList(<<BrandStatJson>>),
          brand_stats_by_avg_number_of_reviews |-> JList(<<>>),
          outlet_counts_by_price |-> PriceBinsJson,
          operating_hours_outlet_count |-> JNum(3),
          operating_hours |-> JObj(BusyWeek)])

CategoryInsightsJson ==
    JObj([max_outlets |-> JStr("pizza"), max_avg_rating |-> JStr("pizza"),
          max_avg_reviews |-> JStr("pizza"), min_avg_rating |-> JStr("sushi"),
          category_stats |->
              JList(<<JObj([category_tag |-> JStr("pizza"),
                            avg_rating |-> JNum(4),
                            avg_number_of_reviews |-> JNum(120),
                            outlet_count |-> JNum(3),
                            price_bins |-> PriceBinsJson])>>),
          category_by_pairwise_occurrence |->
              JList(<<JObj([category_1 |-> JStr("pizza"),
                            category_2 |-> JStr("sushi"),
                            pair_occurrences |-> JNum(2)])>>)])

AreaInsightsJson ==
    JObj([street_stats |->
              JList(<<JObj([street |-> JStr("Al Wasl"), avg_rating |-> JNum(4),
                            avg_number_of_reviews |-> JNum(120),
                            brand_count |-> JNum(3)])>>),
          neighborhood_stats |-> JList(<<>>),
          postcode_stats |-> JList(<<>>)])

EnvelopeJson(request, response) ==
    JObj([request |-> request, response |-> response])

(* The 200 bodies of the insights endpoints: the well-formed body of each  *)
(* of the three, one with an undeclared member, and brand insights bodies  *)
(* that lack a part or hold a malformed one.                               *)
InsightsBodies ==
    {EnvelopeJson(RequestJson, BrandInsightsJson),
     EnvelopeJson(RequestJson, CategoryInsightsJson),
     EnvelopeJson(RequestJson, AreaInsightsJson),
     With(EnvelopeJson(RequestJson, BrandInsightsJson), "version", JStr("1")),
     EnvelopeJson(RequestJson, Without(BrandInsightsJson, "operating_hours")),
     EnvelopeJson(RequestJson,
                  With(BrandInsightsJson, "operating_hours",
                       Without(JObj(BusyWeek), "saturday"))),
     EnvelopeJson(RequestJson,
                  With(BrandInsightsJson, "operating_hours",
                       JObj(FullWeek(DayLength - 1)))),
     EnvelopeJson(RequestJson,
                  With(BrandInsightsJson, "outlet_count", JStr("many"))),
     EnvelopeJson(With(RequestJson, "price_range", JNum(-1)),
                  BrandInsightsJson),
     Without(EnvelopeJson(RequestJson, BrandInsightsJson), "response"),
     Without(EnvelopeJson(RequestJson, BrandInsightsJson), "request")}

StatusCodes == {200, 201, 304, 403, 404, 422, 500}

ConnectionError == [transport |-> "ConnectionError", status_code |-> 0, body |-> None]

Response(status_code, body) ==
    [transport |-> "response", status_code |-> status_code, body |-> Some(body)]

Outcomes ==
    {ConnectionError}
    \cup {Response(s, b) : s \in {200, 404}, b \in Bodies}
    \cup {Response(s, ObjectBody({"detail"}, {})) : s \in StatusCodes \ {200, 404}}

(* The answers of the insights endpoints. *)
InsightsOutcomes ==
    Outcomes \cup {Response(200, JsonBody(json)) : json \in InsightsBodies}

---------------------------------------------------------------------------
(* App.__init__ and App.__generic_fetch *)

App(api_key) ==
    [api_key |-> api_key,
     base_url |-> <<"https://api.dotlas.com">>,
     sociodemographics_url |-> <<"https://api.dotlas.com", "socio-demographics">>,
     competition_url |-> <<"https://api.dotlas.com", "competition">>,
     cities_url |-> <<"https://api.dotlas.com", "cities">>,
     params |-> [api_key |-> api_key],
     headers |-> ("Accept" :> "application/json")
                 @@ ("Content-Type" :> "application/json")
                 @@ ("Authorization" :> api_key)]

(* requests.Response.raise_for_status raises HTTPError for 4xx and 5xx only. *)
raise_for_status(status_code) == 400 <= status_code /\ status_code < 600

Request(self, request_type, url, params) ==
    [request_type |-> request_type, url |-> url, params |-> params,
     headers |-> self.headers]

fetch_result(outcome) ==
    IF outcome.transport /= "response"
    THEN Raise(ValueError("Unable to fetch response",
                          Some([exc |-> outcome.transport, status_code |-> 0])))
    ELSE IF outcome.status_code = 200
    THEN Return(outcome.body)
    ELSE IF outcome.status_code = 404
    THEN Raise(ValueError("404", outcome.body))
    ELSE IF outcome.status_code = 422
    THEN Raise(ValueError("Validation Error - Check params or body", None))
    ELSE IF outcome.status_code = 403
    THEN Raise(ValueError("Invalid API Key", None))
    ELSE IF raise_for_status(outcome.status_code)
    THEN Raise(ValueError("Unable to fetch response",
                          Some([exc |-> "HTTPError",
                                status_code |-> outcome.status_code])))
    ELSE Return(None)

(* Mutant: the request is sent a second time after HTTP 403. *)
generic_fetch_retry_on_403(self, url, params, request_type, outcome) ==
    [sent |-> IF outcome.transport = "response" /\ outcome.status_code = 403
              THEN <<Request(self, request_type, url, params),
                     Request(self, request_type, url, params)>>
              ELSE <<Request(self, request_type, url, params)>>,
     result |-> fetch_result(outcome),
     self |-> self]

(* Mutant: the helper keeps the parameters of the request it sends on the  *)
(* client, where the next call finds them as its default parameter set.    *)
generic_fetch_keeps_params(self, url, params, request_type, outcome) ==
    [sent |-> <<Request(self, request_type, url, params)>>,
     result |-> fetch_result(outcome),
     self |-> [self EXCEPT !.params = params]]

(* sent: the requests handed to the transport; result: what the helper    *)
(* returns or raises; self: the client as the helper leaves it.            *)
generic_fetch(self, url, params, request_type, outcome) ==
    [sent |-> <<Request(self, request_type, url, params)>>,
     result |-> fetch_result(outcome),
     self |-> self]

NotSent(self, r) == [sent |-> <<>>, result |-> r, self |-> self]

---------------------------------------------------------------------------
(* What the facade does with the fetched value *)

Subscript(value, key) ==
    IF value = None
    THEN Raise(TypeError("'NoneType' object is not subscriptable"))
    ELSE IF Val(value).type = "array"
    THEN Raise(TypeError("list indices must be integers or slices, not str"))
    ELSE IF key \notin Val(value).members
    THEN Raise(KeyError(key))
    ELSE Return(Some(key))

RECURSIVE FirstRaise(_, _)
FirstRaise(value, keys) ==
    IF keys = <<>>
    THEN None
    ELSE IF Subscript(value, Head(keys)).kind = "raise"
    THEN Some(Subscript(value, Head(keys)))
    ELSE FirstRaise(value, Tail(keys))

(* Model(key1=body[key1], key2=body[key2], ...) *)
KeywordWrap(model, keys, value) ==
    IF FirstRaise(value, keys) /= None
    THEN Val(FirstRaise(value, keys))
    ELSE IF "json" \in DOMAIN Val(value)
    THEN ConstructModel(model, [k \in {keys[i] : i \in DOMAIN keys} |->
                                   Val(value).json.fields[k]])
    ELSE IF Val(value).invalid \cap {keys[i] : i \in DOMAIN keys} /= {}
    THEN Raise(ValidationError(model,
                 Val(value).invalid \cap {keys[i] : i \in DOMAIN keys}))
    ELSE Return(Some([model |-> model, data |-> Val(value)]))

(* Model(body): pydantic's BaseModel.__init__ takes keyword arguments only. *)
PositionalWrap(model, value) ==
    Raise(TypeError("__init__() takes 1 positional argument but 2 were given"))

Envelope == <<"request", "response">>

---------------------------------------------------------------------------
(* The facade: every operation yields the requests it sent and its result. *)

Then(fetched, wrapped) ==
    IF fetched.result.kind = "raise"
    THEN fetched
    ELSE [sent |-> fetched.sent, result |-> wrapped, self |-> fetched.self]

(* Mutant: the fetched list is returned in reverse order. *)
list_commercial_types_reversed(self, outcome) ==
    LET fetched == generic_fetch(self, self.competition_url \o <<"types">>,
                                 self.params, "GET", outcome)
        value == fetched.result.value
    IN  IF fetched.result.kind = "return" /\ value /= None
           /\ Val(value).type = "array"
        THEN [fetched EXCEPT !.result =
                 Return(Some([Val(value) EXCEPT !.items =
                     [i \in DOMAIN Val(value).items |->
                         Val(value).items[Len(Val(value).items) + 1 - i]]]))]
        ELSE fetched

list_commercial_types(self, outcome) ==
    generic_fetch(self, self.competition_url \o <<"types">>, self.params,
                  "GET", outcome)

list_cities(self, outcome) ==
    generic_fetch(self, self.cities_url, self.params, "GET", outcome)

list_places_in_city(self, city, outcome) ==
    generic_fetch(self, self.cities_url \o <<"places", Segment(city)>>,
                  self.params, "GET", outcome)

list_areas_in_city(self, city, outcome) ==
    generic_fetch(self, self.cities_url \o <<"areas", Segment(city)>>,
                  self.params, "GET", outcome)

list_commercial_brands(self, city, commercial_type, outcome) ==
    generic_fetch(self,
                  self.competition_url
                      \o <<"brands", Segment(city), Segment(commercial_type)>>,
                  self.params, "GET", outcome)

list_commercial_categories(self, city, commercial_type, outcome) ==
    generic_fetch(self,
                  self.competition_url
                      \o <<"categories", Segment(city), Segment(commercial_type)>>,
                  self.params, "GET", outcome)

city_stats(self, city, outcome) ==
    LET fetched == generic_fetch(self,
                       self.sociodemographics_url \o <<"stats", Segment(city)>>,
                       self.params, "GET", outcome)
    IN  Then(fetched,
             PositionalWrap("SocioDemographicsCityResponse", fetched.result.value))

area_stats(self, city, area, outcome) ==
    LET fetched == generic_fetch(self,
                       self.sociodemographics_url
                           \o <<"stats", Segment(city), area>>,
                       self.params, "GET", outcome)
    IN  Then(fetched,
             KeywordWrap("AreaResponse",
                         <<"sociodemographic", "areas_covered", "geometry">>,
                         fetched.result.value))

(* Mutant: the isochrone parameters are never checked. *)
isochrone_missing_unchecked(time_minutes, distance_meters) == FALSE

(* if not any([time_minutes, distance_meters]) *)
isochrone_missing(time_minutes, distance_meters) ==
    ~(TruthyInt(time_minutes) \/ TruthyInt(distance_meters))

(* Mutant: the time branch does not look at mode_of_mobility. *)
sales_territory_route_mode_unchecked(self, mode_of_mobility, time_minutes, distance_meters) ==
    IF TruthyInt(time_minutes)
    THEN [error |-> None,
          url |-> self.sociodemographics_url \o <<"sales_territory", "time">>,
          entry |-> [time_minutes |-> time_minutes]]
    ELSE IF TruthyInt(distance_meters)
    THEN [error |-> None,
          url |-> self.sociodemographics_url \o <<"sales_territory", "distance">>,
          entry |-> [distance_meters |-> distance_meters]]
    ELSE [error |-> None, url |-> None, entry |-> <<>>]

(* The if/elif that picks the resource and the isochrone parameter: the    *)
(* error it raises, or the url and the entry it adds to params.            *)
sales_territory_route(self, mode_of_mobility, time_minutes, distance_meters) ==
    IF TruthyInt(time_minutes)
    THEN IF ~TruthyStr(mode_of_mobility)
         THEN [error |-> Some(ValueError(
                   "Mode of Mobility parameter must be provided for time-based sales territory derivation",
                   None)),
               url |-> None, entry |-> <<>>]
         ELSE [error |-> None,
               url |-> self.sociodemographics_url \o <<"sales_territory", "time">>,
               entry |-> [time_minutes |-> time_minutes]]
    ELSE IF TruthyInt(distance_meters)
    THEN [error |-> None,
          url |-> self.sociodemographics_url \o <<"sales_territory", "distance">>,
          entry |-> [distance_meters |-> distance_meters]]
    ELSE [error |-> None, url |-> None, entry |-> <<>>]

(* Mutant: an empty or null mode_of_mobility is replaced by the default. *)
sales_territory_default_mode(self, latitude, longitude, city, mode_of_mobility_arg, time_minutes, distance_meters, outcome) ==
    LET mode_of_mobility == IF TruthyStr(Arg(mode_of_mobility_arg, Some("driving")))
                            THEN Arg(mode_of_mobility_arg, Some("driving"))
                            ELSE Some("driving")
        errors == SalesTerritoryRequest(latitude, longitude, city,
                                        mode_of_mobility, time_minutes,
                                        distance_meters)
        params == [latitude |-> latitude, longitude |-> longitude,
                   city |-> city, mode_of_mobility |-> mode_of_mobility]
        route == sales_territory_route(self, mode_of_mobility, time_minutes,
                                       distance_meters)
        fetched == generic_fetch(self, route.url, params @@ route.entry,
                                 "GET", outcome)
    IN  IF isochrone_missing(time_minutes, distance_meters)
        THEN NotSent(self, Raise(ValueError(
                 "Either time_minutes or distance_meters parameters must be specified",
                 None)))
        ELSE IF errors /= {}
        THEN NotSent(self, Raise(ValidationError("SalesTerritoryRequest", errors)))
        ELSE IF route.error /= None
        THEN NotSent(self, Raise(Val(route.error)))
        ELSE Then(fetched,
                  KeywordWrap("SalesTerritoryEndpointResponse", Envelope,
                              fetched.result.value))

sales_territory(self, latitude, longitude, city, mode_of_mobility_arg, time_minutes, distance_meters, outcome) ==
    LET mode_of_mobility == Arg(mode_of_mobility_arg, Some("driving"))
        errors == SalesTerritoryRequest(latitude, longitude, city,
                                        mode_of_mobility, time_minutes,
                                        distance_meters)
        params == [latitude |-> latitude, longitude |-> longitude,
                   city |-> city, mode_of_mobility |-> mode_of_mobility]
        route == sales_territory_route(self, mode_of_mobility, time_minutes,
                                       distance_meters)
        fetched == generic_fetch(self, route.url, params @@ route.entry,
                                 "GET", outcome)
    IN  IF isochrone_missing(time_minutes, distance_meters)
        THEN NotSent(self, Raise(ValueError(
                 "Either time_minutes or distance_meters parameters must be specified",
                 None)))
        ELSE IF errors /= {}
        THEN NotSent(self, Raise(ValidationError("SalesTerritoryRequest", errors)))
        ELSE IF route.error /= None
        THEN NotSent(self, Raise(Val(route.error)))
        ELSE Then(fetched,
                  KeywordWrap("SalesTerritoryEndpointResponse", Envelope,
                              fetched.result.value))

nearby_competition(self, latitude, longitude, city, commercial_type, radius_meters_arg, brand_filters, category_filters, outcome) ==
    LET radius_meters == Arg(radius_meters_arg, Some(500))
        errors == CompetitionRequest(latitude, longitude, city, commercial_type,
                                     radius_meters)
        params == [latitude |-> latitude, longitude |-> longitude,
                   city |-> city, radius_meters |-> radius_meters,
                   brand_filters |-> brand_filters,
                   category_filters |-> category_filters]
        fetched == generic_fetch(self,
                       self.competition_url
                           \o <<"nearby", Segment(commercial_type)>>,
                       params, "GET", outcome)
    IN  IF errors /= {}
        THEN NotSent(self, Raise(ValidationError("CompetitionRequest", errors)))
        ELSE Then(fetched,
                  KeywordWrap("CompetitionEndpointResponse", Envelope,
                              fetched.result.value))

(* params = {}; if categories: ...; if price_range: ... *)
insights_params(categories, price_range) ==
    (IF TruthyList(categories) THEN [categories |-> categories] ELSE <<>>)
    @@ (IF TruthyInt(price_range) THEN [price_range |-> price_range] ELSE <<>>)

(* Mutant: the endpoint parameters are added to the client's own default   *)
(* parameter dict, which is then the dict handed to the fetch helper.      *)
generic_insights_shared_params(self, resource, model, city, commercial_type, categories, price_range, outcome) ==
    LET errors == GenericInsightsRequests(city, commercial_type, categories,
                                          price_range)
        shared == [self EXCEPT
                      !.params = insights_params(categories, price_range) @@ @]
        fetched == generic_fetch(shared,
                       shared.competition_url
                           \o <<"insights", resource, Segment(city),
                                Segment(commercial_type)>>,
                       shared.params, "GET", outcome)
    IN  IF errors /= {}
        THEN NotSent(self, Raise(ValidationError("GenericInsightsRequests", errors)))
        ELSE Then(fetched, KeywordWrap(model, Envelope, fetched.result.value))

(* The body category_insights, brand_insights and area_insights share. *)
generic_insights(self, resource, model, city, commercial_type, categories, price_range, outcome) ==
    LET errors == GenericInsightsRequests(city, commercial_type, categories,
                                          price_range)
        params == insights_params(categories, price_range)
        fetched == generic_fetch(self,
                       self.competition_url
                           \o <<"insights", resource, Segment(city),
                                Segment(commercial_type)>>,
                       IF TruthyDict(params) THEN params ELSE self.params,
                       "GET", outcome)
    IN  IF errors /= {}
        THEN NotSent(self, Raise(ValidationError("GenericInsightsRequests", errors)))
        ELSE Then(fetched, KeywordWrap(model, Envelope, fetched.result.value))

category_insights(self, city, commercial_type, categories, price_range, outcome) ==
    generic_insights(self, "categories", "CategoryInsightsEndpointResponse",
                     city, commercial_type, categories, price_range, outcome)

brand_insights(self, city, commercial_type, categories, price_range, outcome) ==
    generic_insights(self, "brands", "BrandInsightsEndpointResponse",
                     city, commercial_type, categories, price_range, outcome)

area_insights(self, city, commercial_type, categories, price_range, outcome) ==
    generic_insights(self, "areas", "AreaInsightsEndpointResponse",
                     city, commercial_type, categories, price_range, outcome)

reverse_geocode(self, latitude, longitude, outcome) ==
    LET errors == ReverseGeocodeRequest(latitude, longitude)
        fetched == generic_fetch(self, self.cities_url \o <<"reverse_geocode">>,
                       [latitude |-> latitude, longitude |-> longitude],
                       "GET", outcome)
    IN  IF errors /= {}
        THEN NotSent(self, Raise(ValidationError("ReverseGeocodeRequest", errors)))
        ELSE Then(fetched,
                  KeywordWrap("ReverseGeocodeEndpointResponse", Envelope,
                              fetched.result.value))

city_boundary(self, city, outcome) ==
    LET fetched == generic_fetch(self,
                       self.cities_url \o <<"boundary", Segment(city)>>,
                       self.params, "GET", outcome)
    IN  Then(fetched, PositionalWrap("GeojsonSpec", fetched.result.value))

place_boundary(self, city, place, outcome) ==
    LET fetched == generic_fetch(self,
                       self.cities_url
                           \o <<"places", "boundary", Segment(city), place>>,
                       self.params, "GET", outcome)
    IN  Then(fetched, PositionalWrap("GeojsonSpec", fetched.result.value))

area_boundary(self, city, area, outcome) ==
    LET fetched == generic_fetch(self,
                       self.cities_url
                           \o <<"areas", "boundary", Segment(city), area>>,
                       self.params, "GET", outcome)
    IN  Then(fetched, PositionalWrap("GeojsonSpec", fetched.result.value))

---------------------------------------------------------------------------
(* The state machine.  app is the client; call is the call just made (None *)
(* between calls), sent the requests it handed to the transport, answer    *)
(* the transport's answer to them (None when the transport was not         *)
(* invoked) and result what the call returned or raised.  threads holds    *)
(* the same for each of the threads of ConcurrentSpec, where calls of one  *)
(* client overlap; in Spec, where calls follow one another, it stays idle. *)

(* A thread that is not inside a call. *)
Idle == [pc |-> "idle", call |-> None, sent |-> <<>>, answer |-> None,
         result |-> None]

Init ==
    /\ app \in {App(k) : k \in ApiKeys}
    /\ call = None
    /\ sent = <<>>
    /\ answer = None
    /\ result = None
    /\ threads = [t \in Callers |-> Idle]

Finish(op, args, done, outcome) ==
    /\ call' = [op |-> op, args |-> args]
    /\ sent' = done.sent
    /\ answer' = IF done.sent = <<>> THEN None ELSE Some(outcome)
    /\ result' = done.result
    /\ app' = done.self
    /\ UNCHANGED threads

New_SalesTerritoryRequest ==
    /\ call = None
    /\ \E latitude \in LatitudeInputs, longitude \in LongitudeInputs,
       city \in CityInputs, mode_of_mobility \in ModeValues,
       time_minutes \in TimeInputs, distance_meters \in DistanceInputs :
        Finish("SalesTerritoryRequest",
               [latitude |-> latitude, longitude |-> longitude, city |-> city,
                mode_of_mobility |-> mode_of_mobility,
                time_minutes |-> time_minutes,
                distance_meters |-> distance_meters],
               NotSent(app, Construct("SalesTerritoryRequest",
                   SalesTerritoryRequest(latitude, longitude, city,
                       mode_of_mobility, time_minutes, distance_meters))),
               ConnectionError)

New_CompetitionRequest ==
    /\ call = None
    /\ \E latitude \in LatitudeInputs, longitude \in LongitudeInputs,
       city \in CityInputs, commercial_type \in CommercialTypeInputs,
       radius_meters \in {Arg(r, None) : r \in RadiusInputs} :
        Finish("CompetitionRequest",
               [latitude |-> latitude, longitude |-> longitude, city |-> city,
                commercial_type |-> commercial_type,
                radius_meters |-> radius_meters],
               NotSent(app, Construct("CompetitionRequest",
                   CompetitionRequest(latitude, longitude, city,
                       commercial_type, radius_meters))),
               ConnectionError)

New_GenericInsightsRequests ==
    /\ call = None
    /\ \E city \in CityInputs, commercial_type \in CommercialTypeInputs,
       categories \in CategoriesInputs, price_range \in PriceRangeInputs :
        Finish("GenericInsightsRequests",
               [city |-> city, commercial_type |-> commercial_type,
                categories |-> categories, price_range |-> price_range],
               NotSent(app, Construct("GenericInsightsRequests",
                   GenericInsightsRequests(city, commercial_type, categories,
                       price_range))),
               ConnectionError)

New_OperatingHours ==
    /\ call = None
    /\ \E fields \in OperatingHoursInputs :
        Finish("OperatingHours", fields,
               NotSent(app, ConstructModel("OperatingHours", fields)),
               ConnectionError)

New_ReverseGeocodeRequest ==
    /\ call = None
    /\ \E latitude \in LatitudeInputs, longitude \in LongitudeInputs :
        Finish("ReverseGeocodeRequest",
               [latitude |-> latitude, longitude |-> longitude],
               NotSent(app, Construct("ReverseGeocodeRequest",
                   ReverseGeocodeRequest(latitude, longitude))),
               ConnectionError)

Call_list_commercial_types ==
    /\ call = None
    /\ \E outcome \in Outcomes :
        Finish("list_commercial_types", <<>>,
               list_commercial_types(app, outcome), outcome)

Call_list_cities ==
    /\ call = None
    /\ \E outcome \in Outcomes :
        Finish("list_cities", <<>>, list_cities(app, outcome), outcome)

Call_list_places_in_city ==
    /\ call = None
    /\ \E city \in CityInputs, outcome \in Outcomes :
        Finish("list_places_in_city", [city |-> city],
               list_places_in_city(app, city, outcome), outcome)

Call_list_areas_in_city ==
    /\ call = None
    /\ \E city \in CityInputs, outcome \in Outcomes :
        Finish("list_areas_in_city", [city |-> city],
               list_areas_in_city(app, city, outcome), outcome)

Call_list_commercial_brands ==
    /\ call = None
    /\ \E city \in CityInputs, commercial_type \in CommercialTypeInputs,
       outcome \in Outcomes :
        Finish("list_commercial_brands",
               [city |-> city, commercial_type |-> commercial_type],
               list_commercial_brands(app, city, commercial_type, outcome),
               outcome)

Call_list_commercial_categories ==
    /\ call = None
    /\ \E city \in CityInputs, commercial_type \in CommercialTypeInputs,
       outcome \in Outcomes :
        Finish("list_commercial_categories",
               [city |-> city, commercial_type |-> commercial_type],
               list_commercial_categories(app, city, commercial_type, outcome),
               outcome)

Call_city_stats ==
    /\ call = None
    /\ \E city \in CityInputs, outcome \in Outcomes :
        Finish("city_stats", [city |-> city],
               city_stats(app, city, outcome), outcome)

Call_area_stats ==
    /\ call = None
    /\ \E city \in CityInputs, area \in NameInputs, outcome \in Outcomes :
        Finish("area_stats", [city |-> city, area |-> area],
               area_stats(app, city, area, outcome), outcome)

Call_sales_territory ==
    /\ call = None
    /\ \E latitude \in LatitudeInputs, longitude \in LongitudeInputs,
       city \in CityInputs, mode_of_mobility \in ModeInputs,
       time_minutes \in TimeInputs, distance_meters \in DistanceInputs,
       outcome \in Outcomes :
        Finish("sales_territory",
               [latitude |-> latitude, longitude |-> longitude, city |-> city,
                mode_of_mobility |-> mode_of_mobility,
                time_minutes |-> time_minutes,
                distance_meters |-> distance_meters],
               sales_territory(app, latitude, longitude, city, mode_of_mobility,
                               time_minutes, distance_meters, outcome),
               outcome)

Call_nearby_competition ==
    /\ call = None
    /\ \E latitude \in LatitudeInputs, longitude \in LongitudeInputs,
       city \in CityInputs, commercial_type \in CommercialTypeInputs,
       radius_meters \in RadiusInputs, brand_filters \in FilterInputs,
       category_filters \in FilterInputs, outcome \in Outcomes :
        Finish("nearby_competition",
               [latitude |-> latitude, longitude |-> longitude, city |-> city,
                commercial_type |-> commercial_type,
                radius_meters |-> radius_meters,
                brand_filters |-> brand_filters,
                category_filters |-> category_filters],
               nearby_competition(app, latitude, longitude, city,
                                  commercial_type, radius_meters, brand_filters,
                                  category_filters, outcome),
               outcome)

Call_category_insights ==
    /\ call = None
    /\ \E city \in CityInputs, commercial_type \in CommercialTypeInputs,
       categories \in CategoriesInputs, price_range \in PriceRangeInputs,
       outcome \in InsightsOutcomes :
        Finish("category_insights",
               [city |-> city, commercial_type |-> commercial_type,
                categories |-> categories, price_range |-> price_range],
               category_insights(app, city, commercial_type, categories,
                                 price_range, outcome),
               outcome)

Call_brand_insights ==
    /\ call = None
    /\ \E city \in CityInputs, commercial_type \in CommercialTypeInputs,
       categories \in CategoriesInputs, price_range \in PriceRangeInputs,
       outcome \in InsightsOutcomes :
        Finish("brand_insights",
               [city |-> city, commercial_type |-> commercial_type,
                categories |-> categories, price_range |-> price_range],
               brand_insights(app, city, commercial_type, categories,
                              price_range, outcome),
               outcome)

Call_area_insights ==
    /\ call = None
    /\ \E city \in CityInputs, commercial_type \in CommercialTypeInputs,
       categories \in CategoriesInputs, price_range \in PriceRangeInputs,
       outcome \in InsightsOutcomes :
        Finish("area_insights",
               [city |-> city, commercial_type |-> commercial_type,
                categories |-> categories, price_range |-> price_range],
               area_insights(app, city, commercial_type, categories,
                             price_range, outcome),
               outcome)

Call_reverse_geocode ==
    /\ call = None
    /\ \E latitude \in LatitudeInputs, longitude \in LongitudeInputs,
       outcome \in Outcomes :
        Finish("reverse_geocode",
               [latitude |-> latitude, longitude |-> longitude],
               reverse_geocode(app, latitude, longitude, outcome), outcome)

Call_city_boundary ==
    /\ call = None
    /\ \E city \in CityInputs, outcome \in Outcomes :
        Finish("city_boundary", [city |-> city],
               city_boundary(app, city, outcome), outcome)

Call_place_boundary ==
    /\ call = None
    /\ \E city \in CityInputs, place \in NameInputs, outcome \in Outcomes :
        Finish("place_boundary", [city |-> city, place |-> place],
               place_boundary(app, city, place, outcome), outcome)

Call_area_boundary ==
    /\ call = None
    /\ \E city \in CityInputs, area \in NameInputs, outcome \in Outcomes :
        Finish("area_boundary", [city |-> city, area |-> area],
               area_boundary(app, city, area, outcome), outcome)

(* The caller takes the result; the client is ready for the next call. *)
Resume ==
    /\ call /= None
    /\ call' = None
    /\ sent' = <<>>
    /\ answer' = None
    /\ result' = None
    /\ UNCHANGED <<app, threads>>

Next ==
    \/ Resume
    \/ New_SalesTerritoryRequest
    \/ New_CompetitionRequest
    \/ New_GenericInsightsRequests
    \/ New_ReverseGeocodeRequest
    \/ New_OperatingHours
    \/ Call_list_commercial_types
    \/ Call_list_cities
    \/ Call_list_places_in_city
    \/ Call_list_areas_in_city
    \/ Call_list_commercial_brands
    \/ Call_list_commercial_categories
    \/ Call_city_stats
    \/ Call_area_stats
    \/ Call_sales_territory
    \/ Call_nearby_competition
    \/ Call_category_insights
    \/ Call_brand_insights
    \/ Call_area_insights
    \/ Call_reverse_geocode
    \/ Call_city_boundary
    \/ Call_place_boundary
    \/ Call_area_boundary

Spec == Init /\ [][Next]_vars

---------------------------------------------------------------------------
(* Several threads calling one client.  A call reads the client while it   *)
(* validates its arguments and builds its request (up to the point where   *)
(* requests.request blocks); what it does with the answer uses its own     *)
(* locals only.  Calls of different threads interleave between these two   *)
(* halves.                                                                 *)

(* The facade method a call record names, applied to its arguments. *)
Invoke(self, c, outcome) ==
    CASE c.op = "list_commercial_types" -> list_commercial_types(self, outcome)
      [] c.op = "list_cities" -> list_cities(self, outcome)
      [] c.op = "list_places_in_city" ->
            list_places_in_city(self, c.args.city, outcome)
      [] c.op = "list_areas_in_city" ->
            list_areas_in_city(self, c.args.city, outcome)
      [] c.op = "list_commercial_brands" ->
            list_commercial_brands(self, c.args.city, c.args.commercial_type,
                                   outcome)
      [] c.op = "list_commercial_categories" ->
            list_commercial_categories(self, c.args.city,
                                       c.args.commercial_type, outcome)
      [] c.op = "city_stats" -> city_stats(self, c.args.city, outcome)
      [] c.op = "area_stats" ->
            area_stats(self, c.args.city, c.args.area, outcome)
      [] c.op = "sales_territory" ->
            sales_territory(self, c.args.latitude, c.args.longitude,
                            c.args.city, c.args.mode_of_mobility,
                            c.args.time_minutes, c.args.distance_meters,
                            outcome)
      [] c.op = "nearby_competition" ->
            nearby_competition(self, c.args.latitude, c.args.longitude,
                               c.args.city, c.args.commercial_type,
                               c.args.radius_meters, c.args.brand_filters,
                               c.args.category_filters, outcome)
      [] c.op = "category_insights" ->
            category_insights(self, c.args.city, c.args.commercial_type,
                              c.args.categories, c.args.price_range, outcome)
      [] c.op = "brand_insights" ->
            brand_insights(self, c.args.city, c.args.commercial_type,
                           c.args.categories, c.args.price_range, outcome)
      [] c.op = "area_insights" ->
            area_insights(self, c.args.city, c.args.commercial_type,
                          c.args.categories, c.args.price_range, outcome)
      [] c.op = "reverse_geocode" ->
            reverse_geocode(self, c.args.latitude, c.args.longitude, outcome)
      [] c.op = "city_boundary" -> city_boundary(self, c.args.city, outcome)
      [] c.op = "place_boundary" ->
            place_boundary(self, c.args.city, c.args.place, outcome)
      [] c.op = "area_boundary" ->
            area_boundary(self, c.args.city, c.args.area, outcome)

(* The calls the threads make: operations that hand the client's default   *)
(* parameter set to the fetch helper, operations that build their own, and *)
(* calls that are rejected before anything is sent.                        *)
ConcurrentCalls ==
    {[op |-> "list_cities", args |-> <<>>]}
    \cup {[op |-> "list_commercial_brands",
           args |-> [city |-> Some("Dubai"),
                     commercial_type |-> Some("restaurants")]]}
    \cup {[op |-> op,
           args |-> [city |-> Some("Dubai"),
                     commercial_type |-> Some("restaurants"),
                     categories |-> categories, price_range |-> price_range]] :
             op \in {"category_insights", "brand_insights"},
             categories \in {None, Some(<<"pizza">>)},
             price_range \in {None, Some(-1), Some(2)}}
    \cup {[op |-> "sales_territory",
           args |-> [latitude |-> 0, longitude |-> 0, city |-> Some("Dubai"),
                     mode_of_mobility |-> Omitted, time_minutes |-> time_minutes,
                     distance_meters |-> None]] :
             time_minutes \in {None, Some(30)}}
    \cup {[op |-> "reverse_geocode", args |-> [latitude |-> 0, longitude |-> 0]]}
    \cup {[op |-> "city_boundary", args |-> [city |-> Some("Dubai")]]}

(* The transport's answers to them. *)
ConcurrentOutcomes ==
    {ConnectionError, Response(200, ArrayBody),
     Response(200, ObjectBody({"request", "response"}, {})),
     Response(304, ObjectBody({"detail"}, {})),
     Response(403, ObjectBody({"detail"}, {}))}

(* Thread t enters a facade method and runs it up to the transport call:  *)
(* the method reads the client, and either raises or hands over its        *)
(* request.  outcome is the answer the transport is going to give.         *)
Begin(t) ==
    /\ threads[t].pc = "idle"
    /\ \E c \in ConcurrentCalls, outcome \in ConcurrentOutcomes :
         LET done == Invoke(app, c, outcome)
         IN  /\ threads' = [threads EXCEPT ![t] =
                    IF done.sent = <<>>
                    THEN [pc |-> "done", call |-> Some(c), sent |-> <<>>,
                          answer |-> None, result |-> Some(done.result)]
                    ELSE [pc |-> "waiting", call |-> Some(c),
                          sent |-> done.sent, answer |-> Some(outcome),
                          result |-> None]]
             /\ app' = done.self
    /\ UNCHANGED <<call, sent, answer, result>>

(* The transport answers thread t, whose method returns or raises. *)
Respond(t) ==
    /\ threads[t].pc = "waiting"
    /\ threads' = [threads EXCEPT ![t] =
           [@ EXCEPT !.pc = "done",
                     !.result = Some(Invoke(app, Val(threads[t].call),
                                            Val(threads[t].answer)).result)]]
    /\ UNCHANGED <<app, call, sent, answer, result>>

(* Thread t's caller takes the result. *)
Leave(t) ==
    /\ threads[t].pc = "done"
    /\ threads' = [threads EXCEPT ![t] = Idle]
    /\ UNCHANGED <<app, call, sent, answer, result>>

ConcurrentNext ==
    \/ \E t \in Callers : Begin(t)
    \/ \E t \in Callers : Respond(t)
    \/ \E t \in Callers : Leave(t)

ConcurrentSpec == Init /\ [][ConcurrentNext]_vars

---------------------------------------------------------------------------
(* Properties *)

IsCall(op) == call /= None /\ call.op = op

Raised == result /= None /\ result.kind = "raise"

Returned == result /= None /\ result.kind = "return"

Preflight == Raised /\ sent = <<>> /\ result.error.exc \in {"ValueError", "ValidationError"}

Rejects(field) ==
    Raised /\ result.error.exc = "ValidationError" /\ field \in result.error.fields

LatitudeInRange(latitude) ==
    -(90 * CoordResolution) <= latitude /\ latitude <= 90 * CoordResolution

LongitudeInRange(longitude) ==
    -(180 * CoordResolution) <= longitude /\ longitude <= 180 * CoordResolution

CoordinatesInRange ==
    LatitudeInRange(call.args.latitude) /\ LongitudeInRange(call.args.longitude)

TimeUrl == <<"https://api.dotlas.com", "socio-demographics", "sales_territory", "time">>

DistanceUrl ==
    <<"https://api.dotlas.com", "socio-demographics", "sales_territory", "distance">>

(* C1: sales_territory called with neither time_minutes nor distance_meters *)
(* raises a preflight validation error whatever the other arguments are,   *)
(* and the transport is not invoked.                                       *)
C1_NeitherIsochroneRaises ==
    (IsCall("sales_territory")
        /\ call.args.time_minutes = None /\ call.args.distance_meters = None)
    => Preflight

C1_Witness ==
    /\ IsCall("sales_territory")
    /\ call.args.time_minutes = None /\ call.args.distance_meters = None
    /\ ~LatitudeInRange(call.args.latitude)
    /\ call.args.city = None
    /\ call.args.mode_of_mobility = Given(Some("flying"))
    /\ Raised
    /\ result.error.msg
         = "Either time_minutes or distance_meters parameters must be specified"

(* C2: a sales_territory call that supplies both time_minutes and          *)
(* distance_meters, each in range, is rejected before any request is sent. *)
C2_BothIsochronesRejected ==
    (IsCall("sales_territory")
        /\ call.args.time_minutes /= None /\ call.args.distance_meters /= None
        /\ 1 <= Val(call.args.time_minutes) /\ Val(call.args.time_minutes) <= 60
        /\ 1 <= Val(call.args.distance_meters)
        /\ Val(call.args.distance_meters) <= 10000)
    => Preflight

(* C3: sales_territory with time_minutes in range and mode_of_mobility     *)
(* None raises a preflight validation error and sends nothing; the same    *)
(* call (coordinates in range, a city, no distance_meters) with            *)
(* mode_of_mobility driving or walking sends exactly one request.          *)
C3_TimeNeedsModeOfMobility ==
    (IsCall("sales_territory")
        /\ call.args.time_minutes /= None
        /\ 1 <= Val(call.args.time_minutes) /\ Val(call.args.time_minutes) <= 60)
    => /\ call.args.mode_of_mobility = Given(None) => Preflight
       /\ (/\ call.args.mode_of_mobility
                \in {Given(Some("driving")), Given(Some("walking"))}
           /\ CoordinatesInRange
           /\ call.args.city /= None
           /\ call.args.distance_meters = None)
          => Len(sent) = 1

C3_Witness ==
    /\ IsCall("sales_territory")
    /\ call.args.time_minutes = Some(30)
    /\ call.args.mode_of_mobility = Given(None)
    /\ CoordinatesInRange /\ call.args.city /= None
    /\ call.args.distance_meters = None
    /\ Preflight
    /\ result.error.exc = "ValueError"

(* C4: whenever sales_territory issues a request the url is set; it is the *)
(* time resource and params carries time_minutes if time_minutes was       *)
(* supplied, and the distance resource and params carries distance_meters  *)
(* if distance_meters was supplied.                                        *)
C4_RouteFollowsIsochrone ==
    (IsCall("sales_territory") /\ sent /= <<>>)
    => /\ sent[1].url /= None
       /\ call.args.time_minutes /= None
          => (sent[1].url = TimeUrl /\ "time_minutes" \in DOMAIN sent[1].params)
       /\ call.args.distance_meters /= None
          => (sent[1].url = DistanceUrl
              /\ "distance_meters" \in DOMAIN sent[1].params)

(* C5: the insights request descriptor rejects price_range exactly when it *)
(* is present and below 1 (0 and negative values), and accepts an absent   *)
(* price_range and every price_range >= 1.                                 *)
C5_PriceRangeAtLeastOne ==
    (call /= None
        /\ call.op \in {"GenericInsightsRequests", "category_insights",
                        "brand_insights", "area_insights"})
    => (Rejects("price_range")
        <=> (call.args.price_range /= None /\ Val(call.args.price_range) < 1))

(* C6: SalesTerritoryRequest rejects a supplied time_minutes exactly when  *)
(* it is outside 1..60 and a supplied distance_meters exactly when it is   *)
(* outside 1..10000; a supplied 0 is present and so rejected.              *)
C6_IsochroneRanges ==
    IsCall("SalesTerritoryRequest")
    => /\ Rejects("time_minutes")
          <=> (/\ call.args.time_minutes /= None
               /\ ~(1 <= Val(call.args.time_minutes)
                    /\ Val(call.args.time_minutes) <= 60))
       /\ Rejects("distance_meters")
          <=> (/\ call.args.distance_meters /= None
               /\ ~(1 <= Val(call.args.distance_meters)
                    /\ Val(call.args.distance_meters) <= 10000))

(* C7: SalesTerritoryRequest, CompetitionRequest and ReverseGeocodeRequest *)
(* each reject latitude exactly when it is outside [-90, 90] and longitude *)
(* exactly when it is outside [-180, 180], so the three agree on every     *)
(* pair; when nothing else is wrong the descriptor is built iff the pair   *)
(* is in range.                                                            *)
C7_CoordinateRange ==
    (call /= None
        /\ call.op \in {"SalesTerritoryRequest", "CompetitionRequest",
                        "ReverseGeocodeRequest"})
    => /\ Rejects("latitude") <=> ~LatitudeInRange(call.args.latitude)
       /\ Rejects("longitude") <=> ~LongitudeInRange(call.args.longitude)
       /\ (Raised => result.error.fields \subseteq {"latitude", "longitude"})
          => (Returned <=> CoordinatesInRange)

C7_Witness ==
    /\ IsCall("ReverseGeocodeRequest")
    /\ call.args.latitude = -(90 * CoordResolution)
    /\ call.args.longitude = 180 * CoordResolution
    /\ Returned

C7_WitnessOutside ==
    /\ IsCall("CompetitionRequest")
    /\ call.args.latitude = 90 * CoordResolution + 1
    /\ call.args.longitude = -(180 * CoordResolution) - 1
    /\ Rejects("latitude") /\ Rejects("longitude")

(* C8: nearby_competition uses radius_meters = 500 when the caller gives   *)
(* none; a radius outside 1..10000 raises a validation failure and nothing *)
(* is sent; a radius inside it (1 and 10000 included) is accepted and sent *)
(* as given.                                                               *)
C8_RadiusRange ==
    IsCall("nearby_competition")
    => LET radius == IF call.args.radius_meters.given
                     THEN Val(call.args.radius_meters.v)
                     ELSE 500
       IN  /\ ~(1 <= radius /\ radius <= 10000)
              => (Rejects("radius_meters") /\ sent = <<>>)
           /\ (1 <= radius /\ radius <= 10000)
              => /\ ~Rejects("radius_meters")
                 /\ (CoordinatesInRange /\ call.args.city /= None
                        /\ call.args.commercial_type /= None)
                    => (Len(sent) = 1
                        /\ sent[1].params.radius_meters = Some(radius))

C8_Witness ==
    /\ IsCall("nearby_competition")
    /\ call.args.radius_meters = Omitted
    /\ Len(sent) = 1
    /\ sent[1].params.radius_meters = Some(500)

C8_WitnessRejected ==
    /\ IsCall("nearby_competition")
    /\ call.args.radius_meters = Given(Some(10001))
    /\ CoordinatesInRange /\ call.args.city /= None
    /\ call.args.commercial_type /= None
    /\ Rejects("radius_meters") /\ sent = <<>>

FailureClass(outcome) ==
    IF outcome.transport /= "response" THEN "transport failure"
    ELSE IF outcome.status_code = 404 THEN "HTTP 404"
    ELSE IF outcome.status_code = 422 THEN "HTTP 422"
    ELSE IF outcome.status_code = 403 THEN "HTTP 403"
    ELSE IF 200 <= outcome.status_code /\ outcome.status_code < 300 THEN "2xx"
    ELSE "other non-2xx"

(* C9: a transport failure, HTTP 404 (with the server body), HTTP 422,     *)
(* HTTP 403 and any other non-2xx status each end the facade call with the *)
(* error the fetch helper raised, unmodified, never with a normal return,  *)
(* and outcomes of two different classes never yield the same error.       *)
C9_FailuresRaiseDistinctErrors ==
    (call /= None /\ answer /= None /\ FailureClass(Val(answer)) /= "2xx")
    => /\ Raised
       /\ result = fetch_result(Val(answer))
       /\ FailureClass(Val(answer)) = "HTTP 404"
          => result.error.detail = Val(answer).body
       /\ \A o \in Outcomes :
            (FailureClass(o) \notin {"2xx", FailureClass(Val(answer))}
                /\ fetch_result(o).kind = "raise")
            => fetch_result(o).error /= result.error

FacadeOperations ==
    {"list_commercial_types", "list_cities", "list_places_in_city",
     "list_areas_in_city", "list_commercial_brands",
     "list_commercial_categories", "city_stats", "area_stats",
     "sales_territory", "nearby_competition", "category_insights",
     "brand_insights", "area_insights", "reverse_geocode", "city_boundary",
     "place_boundary", "area_boundary"}

(* Whether the arguments of the call pass the schema and cross-field checks. *)
ArgumentsPass ==
    LET a == call.args
    IN  CASE call.op = "sales_territory" ->
               /\ ~isochrone_missing(a.time_minutes, a.distance_meters)
               /\ SalesTerritoryRequest(a.latitude, a.longitude, a.city,
                      Arg(a.mode_of_mobility, Some("driving")),
                      a.time_minutes, a.distance_meters) = {}
               /\ ~(TruthyInt(a.time_minutes)
                    /\ ~TruthyStr(Arg(a.mode_of_mobility, Some("driving"))))
          [] call.op = "nearby_competition" ->
               CompetitionRequest(a.latitude, a.longitude, a.city,
                   a.commercial_type, Arg(a.radius_meters, Some(500))) = {}
          [] call.op \in {"category_insights", "brand_insights", "area_insights"} ->
               GenericInsightsRequests(a.city, a.commercial_type, a.categories,
                                       a.price_range) = {}
          [] call.op = "reverse_geocode" ->
               ReverseGeocodeRequest(a.latitude, a.longitude) = {}
          [] OTHER -> TRUE

(* C10: every facade call invokes the transport at most once: exactly once *)
(* when its arguments pass validation, whatever the transport answers (no  *)
(* retry after HTTP 403 or any other error), and not at all when a schema  *)
(* or cross-field validation fails.                                        *)
C10_AtMostOneRequest ==
    (call /= None /\ call.op \in FacadeOperations)
    => /\ Len(sent) <= 1
       /\ ArgumentsPass => (Len(sent) = 1 /\ answer /= None)
       /\ ~ArgumentsPass => (sent = <<>> /\ Preflight)

C10_Witness ==
    /\ IsCall("brand_insights")
    /\ answer /= None
    /\ Val(answer).transport = "response" /\ Val(answer).status_code = 403
    /\ Len(sent) = 1
    /\ Raised /\ result.error.msg = "Invalid API Key"

(* C11: the client's configuration (API key, base urls, default headers,   *)
(* default api_key parameter set) is fixed at construction: no step, and   *)
(* so no sequence of facade operations, changes any of its values; the     *)
(* default parameter set is never extended with endpoint parameters.       *)
C11_ConfigurationFixed == [][app' = app]_vars

(* An insights call has sent endpoint parameters of its own and the        *)
(* client's default parameter set is still the api_key entry alone.        *)
C11_Witness ==
    /\ IsCall("category_insights")
    /\ Len(sent) = 1
    /\ DOMAIN sent[1].params = {"categories", "price_range"}
    /\ app.params = [api_key |-> app.api_key]
    /\ app = App(app.api_key)

(* C12: concurrent calls on one client are independent: under every        *)
(* interleaving, the request a call sends and the result or error it       *)
(* returns are those of the same call, with the same answer from the       *)
(* transport, run alone on a freshly constructed client.                   *)
C12_ConcurrentCallsIndependent ==
    \A t \in Callers :
        threads[t].pc /= "idle" =>
            LET alone == Invoke(App(app.api_key), Val(threads[t].call),
                                IF threads[t].answer = None
                                THEN ConnectionError
                                ELSE Val(threads[t].answer))
            IN  /\ threads[t].sent = alone.sent
                /\ threads[t].pc = "done" =>
                       threads[t].result = Some(alone.result)

(* One thread waits for the answer to an insights request that carries     *)
(* endpoint parameters while another, which began after it, has its        *)
(* request with the default parameter set answered.                        *)
C12_Witness ==
    /\ threads["t1"].pc = "waiting"
    /\ Val(threads["t1"].call).op = "category_insights"
    /\ "categories" \in DOMAIN threads["t1"].sent[1].params
    /\ threads["t2"].pc = "done"
    /\ Val(threads["t2"].call).op = "list_cities"
    /\ threads["t2"].sent[1].params = [api_key |-> app.api_key]
    /\ Val(threads["t2"].result).kind = "return"

InsightsOperations == {"category_insights", "brand_insights", "area_insights"}

(* The operations whose query parameters are endpoint arguments. *)
ParameterOperations ==
    {"sales_territory", "nearby_competition", "reverse_geocode"}

(* The categories and price_range entries the caller of an insights        *)
(* operation supplied. *)
SuppliedInsightsEntries ==
    (IF call.args.categories /= None
     THEN [categories |-> call.args.categories] ELSE <<>>)
    @@ (IF call.args.price_range /= None
        THEN [price_range |-> call.args.price_range] ELSE <<>>)

EndpointParameterSupplied ==
    \/ call.op \in ParameterOperations
    \/ call.op \in InsightsOperations /\ SuppliedInsightsEntries /= <<>>

(* C13: every request a facade operation sends carries the Authorization   *)
(* header equal to the API key; it carries the api_key query parameter     *)
(* exactly when the caller supplied no endpoint-specific parameter; and    *)
(* the parameter set of each of the three insights operations is exactly   *)
(* the supplied categories/price_range entries, or, when none is supplied, *)
(* exactly the api_key set (the same choice for all three).                *)
C13_ApiKeyCarriage ==
    (call /= None /\ call.op \in FacadeOperations) =>
        \A i \in DOMAIN sent :
            /\ sent[i].headers["Authorization"] = app.api_key
            /\ ("api_key" \in DOMAIN sent[i].params) <=> ~EndpointParameterSupplied
            /\ call.op \in InsightsOperations =>
                   sent[i].params = IF SuppliedInsightsEntries = <<>>
                                    THEN [api_key |-> app.api_key]
                                    ELSE SuppliedInsightsEntries

(* The model each positionally wrapping operation declares as its result,  *)
(* and the fields that model requires.                                     *)
TypedOperations ==
    [city_stats |-> [model |-> "SocioDemographicsCityResponse", required |-> {}],
     city_boundary |-> [model |-> "GeojsonSpec", required |-> {"features"}],
     place_boundary |-> [model |-> "GeojsonSpec", required |-> {"features"}],
     area_boundary |-> [model |-> "GeojsonSpec", required |-> {"features"}]]

(* The transport answered HTTP 200 with a JSON object that has the fields  *)
(* the declared model requires, none of them malformed.                    *)
AnsweredMatching(required) ==
    /\ answer /= None
    /\ Val(answer).transport = "response"
    /\ Val(answer).status_code = 200
    /\ Val(Val(answer).body).type = "object"
    /\ required \subseteq Val(Val(answer).body).members
    /\ Val(Val(answer).body).invalid = {}

(* C14: city_boundary, place_boundary, area_boundary and city_stats send   *)
(* one request and, whenever the transport answers HTTP 200 with a body    *)
(* matching the declared model, return the typed result built from that    *)
(* body instead of raising.                                                *)
C14_TypedResultOnMatchingBody ==
    (call /= None /\ call.op \in DOMAIN TypedOperations) =>
        /\ Len(sent) = 1
        /\ AnsweredMatching(TypedOperations[call.op].required) =>
               /\ Returned
               /\ result.value = Some([model |-> TypedOperations[call.op].model,
                                        data |-> Val(Val(answer).body)])

(* The envelope model each insights operation declares, and the body of    *)
(* its endpoint that has every declared field.                             *)
InsightsModel ==
    [category_insights |-> "CategoryInsightsEndpointResponse",
     brand_insights |-> "BrandInsightsEndpointResponse",
     area_insights |-> "AreaInsightsEndpointResponse"]

InsightsResponseJson ==
    [category_insights |-> CategoryInsightsJson,
     brand_insights |-> BrandInsightsJson,
     area_insights |-> AreaInsightsJson]

(* The transport answered the call HTTP 200 with this JSON object. *)
AnsweredJson(json) ==
    /\ answer /= None
    /\ Val(answer).transport = "response"
    /\ Val(answer).status_code = 200
    /\ "json" \in DOMAIN Val(Val(answer).body)
    /\ Val(Val(answer).body).json = json

(* Bodies that lack an envelope key, and brand insights bodies that lack   *)
(* operating_hours or one weekday of it.                                   *)
LacksEnvelopeKey(response) ==
    {Without(EnvelopeJson(RequestJson, response), "response"),
     Without(EnvelopeJson(RequestJson, response), "request")}

LacksNestedField ==
    {EnvelopeJson(RequestJson, Without(BrandInsightsJson, "operating_hours")),
     EnvelopeJson(RequestJson,
                  With(BrandInsightsJson, "operating_hours",
                       Without(JObj(BusyWeek), "saturday")))}

(* The errors the fetch helper raises for transport failures and for HTTP  *)
(* statuses.                                                               *)
FetchErrors ==
    {fetch_result(o).error : o \in {x \in Outcomes : fetch_result(x).kind = "raise"}}

ResponseShapeError ==
    /\ Raised
    /\ result.error.exc \in {"ValidationError", "KeyError"}
    /\ result.error \notin FetchErrors
    /\ \A e \in FetchErrors : e.exc /= result.error.exc

(* C15: an insights operation whose transport answers HTTP 200 with a body *)
(* that has every declared field returns the typed envelope object, whose  *)
(* fields hold the values of the body; when the body lacks an envelope key *)
(* (request or response) or a required nested field (operating_hours, or a *)
(* weekday of it), the operation raises a response-shape error (pydantic's *)
(* ValidationError or a KeyError) that no transport failure and no HTTP    *)
(* status produces.                                                        *)
C15_EnvelopeDecoding ==
    (call /= None /\ call.op \in DOMAIN InsightsModel) =>
        LET complete == EnvelopeJson(RequestJson, InsightsResponseJson[call.op])
        IN  /\ (AnsweredJson(complete)
                 \/ AnsweredJson(With(complete, "version", JStr("1")))) =>
                   /\ Returned
                   /\ Val(result.value).model = InsightsModel[call.op]
                   /\ Dump(ModelT(InsightsModel[call.op]),
                           Val(result.value).data) = complete
            /\ \A json \in LacksEnvelopeKey(BrandInsightsJson) :
                   AnsweredJson(json) => ResponseShapeError
            /\ IsCall("brand_insights") =>
                   \A json \in LacksNestedField :
                       AnsweredJson(json) => ResponseShapeError

(* brand_insights has returned the typed object for a complete body. *)
C15_Witness ==
    /\ IsCall("brand_insights")
    /\ AnsweredJson(EnvelopeJson(RequestJson, BrandInsightsJson))
    /\ Returned
    /\ Val(result.value).data.response.operating_hours.saturday[DayLength]
           = DayLength
    /\ Val(result.value).data.request.price_range = Some(2)

(* brand_insights has raised for a body without operating_hours. *)
C15_WitnessLacking ==
    /\ IsCall("brand_insights")
    /\ AnsweredJson(EnvelopeJson(RequestJson,
                                 Without(BrandInsightsJson, "operating_hours")))
    /\ Raised
    /\ result.error = ValidationError("BrandInsightsEndpointResponse",
                                      {"response"})

(* The keyword arguments hold all seven weekdays, each a list of exactly   *)
(* DayLength integers.                                                     *)
SevenDaysOfDayLength(fields) ==
    /\ DOMAIN fields = Weekdays
    /\ \A d \in Weekdays :
          /\ fields[d].t = "array"
          /\ Len(fields[d].items) = DayLength
          /\ \A i \in DOMAIN fields[d].items : fields[d].items[i].t = "number"

(* C16: OperatingHours accepts exactly the structures that have all seven  *)
(* weekday fields, each a sequence of exactly 24 integers (a missing       *)
(* weekday and a sequence of length 0, 23 or 25 are rejected), and an      *)
(* accepted structure is unchanged by encoding it and decoding it again.   *)
C16_OperatingHoursShape ==
    IsCall("OperatingHours") =>
        /\ Returned <=> SevenDaysOfDayLength(call.args)
        /\ Raised => result.error.exc = "ValidationError"
        /\ Returned =>
               ConstructModel("OperatingHours",
                              Dump(ModelT("OperatingHours"),
                                   Val(result.value).data).fields) = result

(* The same without the length: all seven weekdays, each a list of         *)
(* integers.                                                               *)
C16_SevenListsOfIntegers ==
    IsCall("OperatingHours") =>
        /\ Returned <=>
               /\ DOMAIN call.args = Weekdays
               /\ \A d \in Weekdays :
                     /\ call.args[d].t = "array"
                     /\ \A i \in DOMAIN call.args[d].items :
                           call.args[d].items[i].t = "number"
        /\ Raised => result.error.exc = "ValidationError"
        /\ Returned =>
               ConstructModel("OperatingHours",
                              Dump(ModelT("OperatingHours"),
                                   Val(result.value).data).fields) = result

(* The caller passed mode_of_mobility explicitly as None or "". *)
ModeIsMarker ==
    call.args.mode_of_mobility \in {Given(None), Given(Some(""))}

(* C17: sales_territory called with a distance_meters in range, no         *)
(* time_minutes and mode_of_mobility explicitly None or "" (valid          *)
(* coordinates and city) is accepted, sends its one request to the         *)
(* distance resource, and the parameters of that request still hold the    *)
(* mode_of_mobility entry with that marker, next to distance_meters; no    *)
(* time or radius entry is added.                                          *)
C17_DistanceIgnoresMode ==
    (/\ IsCall("sales_territory")
     /\ ModeIsMarker
     /\ call.args.time_minutes = None
     /\ call.args.distance_meters /= None
     /\ 1 <= Val(call.args.distance_meters)
     /\ Val(call.args.distance_meters) <= 10000
     /\ CoordinatesInRange
     /\ call.args.city /= None)
    => /\ Len(sent) = 1
       /\ sent[1].url = DistanceUrl
       /\ DOMAIN sent[1].params =
              {"latitude", "longitude", "city", "mode_of_mobility",
               "distance_meters"}
       /\ sent[1].params.mode_of_mobility = call.args.mode_of_mobility.v
       /\ sent[1].params.distance_meters = call.args.distance_meters

(* Such a call with mode_of_mobility="" has been answered and has         *)
(* returned the typed envelope.                                            *)
C17_Witness ==
    /\ IsCall("sales_territory")
    /\ call.args.mode_of_mobility = Given(Some(""))
    /\ call.args.time_minutes = None
    /\ call.args.distance_meters = Some(800)
    /\ Len(sent) = 1
    /\ sent[1].url = DistanceUrl
    /\ sent[1].params.mode_of_mobility = Some("")
    /\ Returned

ListOperations ==
    {"list_commercial_types", "list_cities", "list_places_in_city",
     "list_areas_in_city", "list_commercial_brands",
     "list_commercial_categories"}

(* C18: a list operation sends one request and returns exactly what the    *)
(* fetch helper produced for the transport's answer: on HTTP 200 the       *)
(* decoded body, with the same items in the same order, whatever the city  *)
(* and commercial_type arguments are.                                      *)
C18_ListPassThrough ==
    (call /= None /\ call.op \in ListOperations) =>
        /\ Len(sent) = 1
        /\ answer /= None
        /\ result = fetch_result(Val(answer))
        /\ (Val(answer).transport = "response"
            /\ Val(answer).status_code = 200) =>
               (Returned /\ result.value = Val(answer).body)

(* list_commercial_types has returned the fetched list, which is not in    *)
(* sorted order, as it was.                                                *)
C18_Witness ==
    /\ IsCall("list_commercial_types")
    /\ Val(answer) = Response(200, ArrayBody)
    /\ Returned
    /\ Val(result.value).items = <<"retail", "restaurants", "gyms">>

(* C19: the fetch helper hands a decoded body to the facade operation only *)
(* for HTTP status 200 and raises for every other status: no answer of the *)
(* transport makes it complete without raising and without a body (None).  *)
C19_FetchRaisesUnlessOk ==
    (call /= None /\ call.op \in ListOperations /\ answer /= None) =>
        /\ Returned =>
               /\ Val(answer).transport = "response"
               /\ Val(answer).status_code = 200
               /\ result.value /= None
        /\ (Val(answer).transport = "response"
            /\ Val(answer).status_code /= 200) => Raised

====
